---- MODULE Spec2Model ----
(***************************************************************************)
(* AvmMerkleTreeTraceBuilder (vm/avm/trace/gadgets/merkle_tree.cpp):       *)
(* the recorder (check_membership, update_leaf_index), the path evaluator  *)
(* (compute_root_from_path) and the row compiler (finalize).               *)
(*                                                                         *)
(* Numbers.  A uint32_t or size_t quantity whose width matters (the clock  *)
(* and everything derived from it) is a triple <<c, hi, lo>> of value      *)
(* c * 2^32 + hi * 2^16 + lo, with 16-bit limbs hi and lo; a uint32_t has  *)
(* c = 0.  A field element FF is a residue modulo FieldModulus.  Columns   *)
(* that hold an embedded machine integer (clk, leaf_index, path_len) keep  *)
(* the integer: the embedding into the real field is injective.            *)
(***************************************************************************)
EXTENDS Integers, Sequences, FiniteSets, TLC

VARIABLES
    merkle_check_trace,  \* the builder's entry log (std::vector<MerkleEntry>)
    poseidon2_calls,     \* the hash gadget's own log of the calls it served
    last,                \* the last recorder call: its arguments, its result
                         \* and the entry log it found (before)
    main_trace,          \* the row table finalize was handed, after the call
    fin,                 \* how finalize ended, and on what table
    phase                \* "recording" until finalize has run

vars == <<merkle_check_trace, poseidon2_calls, last, main_trace, fin, phase>>

(***************************************************************************)
(* Bounds of the model.                                                    *)
(***************************************************************************)
MaxEntries == 2
MaxPathLen == 2
MaxRows == 3

(***************************************************************************)
(* Machine integers.                                                       *)
(***************************************************************************)
Limb == 2^16

ClkShift == 6

\* uint32_t << ClkShift: the bits shifted past bit 31 are lost.
U32Shl(x) ==
    <<0,
      (x[2] * 2^ClkShift + x[3] \div 2^(16 - ClkShift)) % Limb,
      (x[3] * 2^ClkShift) % Limb>>

\* uint32_t + uint32_t: wraps at 2^32.
U32Add(x, i) ==
    LET lo == x[3] + i
        hi == x[2] + lo \div Limb
    IN  <<0, hi % Limb, lo % Limb>>

\* uint32_t + size_t: the sum is formed in 64 bits, the carry is kept.
U64Add(x, i) ==
    LET lo == x[3] + i
        hi == x[2] + lo \div Limb
    IN  <<x[1] + hi \div Limb, hi % Limb, lo % Limb>>

(***************************************************************************)
(* Field elements.                                                         *)
(***************************************************************************)
FieldModulus == 7

FF == 0 .. FieldModulus - 1

ToFF(n) == n % FieldModulus

FFSub(a, b) == (a - b + FieldModulus) % FieldModulus

FFMul(a, b) == (a * b) % FieldModulus

\* FF::invert.  It is defined on nonzero elements only; a call on zero is
\* reported in zero_inverted.
Invert(x) ==
    [val |-> IF x = 0 THEN 0 ELSE CHOOSE y \in FF : FFMul(x, y) = 1,
     zero_inverted |-> x = 0]

\* Poseidon2 over two field elements and a domain identifier: a fixed
\* function that depends on both operands, on their order, and on the domain.
poseidon2_hash(input, clk) ==
    ToFF(2 * input[1] + 3 * input[2] + clk[1] + clk[2] + clk[3] + 1)

(***************************************************************************)
(* Inputs of the recorder calls.                                           *)
(***************************************************************************)
ClkSet == { <<0, 0, 1>>, <<0, 1024, 1>>, <<0, 65535, 65535>> }

LeafValueSet == { 3 }

LeafIndexSet == { 1, 2 }

Sibling(i) == IF i % 2 = 1 THEN 2 ELSE 5

PathSet == { [i \in 1 .. n |-> Sibling(i)] : n \in 0 .. MaxPathLen }

RootSet == { 3, 6 }

\* Order of two uint32_t values.
U32Less(a, b) == a[2] < b[2] \/ (a[2] = b[2] /\ a[3] < b[3])

\* The interpreter hands each operation a clock later than that of the
\* operation before it (the clock is its monotonic operation identifier).
ClockAdvances(entries, clk) ==
    IF Len(entries) = 0
    THEN TRUE
    ELSE U32Less(entries[Len(entries)].clk, clk)

(***************************************************************************)
(* Path Evaluator.                                                         *)
(***************************************************************************)
RECURSIVE PathLoop(_, _, _, _)
PathLoop(i, entry_id, path, acc) ==
    IF ~(i < Len(path))
    THEN acc
    ELSE LET path_parity == (acc.curr_index % 2 = 0)
             domain == U32Add(entry_id, i)
             input == IF path_parity
                      THEN <<acc.curr_value, path[i + 1]>>
                      ELSE <<path[i + 1], acc.curr_value>>
             h == poseidon2_hash(input, domain)
         IN  PathLoop(i + 1, entry_id, path,
                      [curr_value |-> h,
                       curr_index |-> acc.curr_index \div 2,
                       path_values |-> Append(acc.path_values, h),
                       calls |-> Append(acc.calls,
                                        [input |-> input, clk |-> domain,
                                         output |-> h])])

\* The entry compute_root_from_path returns, and the hash calls it made.
compute_root_from_path(clk, leaf_value, leaf_index, path) ==
    LET entry_id == U32Shl(clk)
        r == PathLoop(0, entry_id, path,
                      [curr_value |-> leaf_value, curr_index |-> leaf_index,
                       path_values |-> <<>>, calls |-> <<>>])
    IN  [entry |-> [clk |-> clk,
                    leaf_value |-> leaf_value,
                    leaf_index |-> leaf_index,
                    path |-> path,
                    path_bits |-> <<>>,
                    path_values |-> r.path_values,
                    root |-> r.curr_value,
                    is_member |-> FALSE,
                    is_membership_op |-> FALSE,
                    is_update_op |-> FALSE],
         calls |-> r.calls]

(***************************************************************************)
(* Operation Recorder.                                                     *)
(***************************************************************************)
NoCall ==
    [op |-> "none", clk |-> <<0, 0, 0>>, leaf_value |-> 0, leaf_index |-> 0,
     path |-> <<>>, root |-> 0, ret |-> 0, before |-> <<>>]

MembershipRoot_KeepComputed(is_member, computed, root) == computed

\* entry.root = is_member ? entry.root : root
MembershipRoot(is_member, computed, root) ==
    IF is_member THEN computed ELSE root

check_membership(clk, leaf_value, leaf_index, path, root) ==
    /\ phase = "recording"
    /\ Len(merkle_check_trace) < MaxEntries
    /\ ClockAdvances(merkle_check_trace, clk)
    /\ LET c == compute_root_from_path(clk, leaf_value, leaf_index, path)
           is_member == (c.entry.root = root)
           entry == [c.entry EXCEPT
                        !.is_membership_op = TRUE,
                        !.is_member = is_member,
                        !.root = MembershipRoot(is_member, c.entry.root, root)]
       IN  /\ poseidon2_calls' = poseidon2_calls \o c.calls
           /\ merkle_check_trace' = Append(merkle_check_trace, entry)
           /\ last' = [op |-> "check_membership", clk |-> clk,
                       leaf_value |-> leaf_value, leaf_index |-> leaf_index,
                       path |-> path, root |-> root, ret |-> entry.is_member,
                       before |-> merkle_check_trace]
    /\ UNCHANGED <<main_trace, fin, phase>>

UpdateEntry_AlsoMembership(entry) ==
    [entry EXCEPT !.is_update_op = TRUE, !.is_membership_op = TRUE]

\* entry.is_update_op = true
UpdateEntry(entry) == [entry EXCEPT !.is_update_op = TRUE]

update_leaf_index(clk, leaf_value, leaf_index, path) ==
    /\ phase = "recording"
    /\ Len(merkle_check_trace) < MaxEntries
    /\ ClockAdvances(merkle_check_trace, clk)
    /\ LET c == compute_root_from_path(clk, leaf_value, leaf_index, path)
           entry == UpdateEntry(c.entry)
       IN  /\ poseidon2_calls' = poseidon2_calls \o c.calls
           /\ merkle_check_trace' = Append(merkle_check_trace, entry)
           /\ last' = [op |-> "update_leaf_index", clk |-> clk,
                       leaf_value |-> leaf_value, leaf_index |-> leaf_index,
                       path |-> path, root |-> 0, ret |-> entry.root,
                       before |-> merkle_check_trace]
    /\ UNCHANGED <<main_trace, fin, phase>>

(***************************************************************************)
(* Row Compiler.                                                           *)
(***************************************************************************)
\* A row of the table as AvmFullRow<FF> default-constructs it.
ZeroRow ==
    [merkle_tree_clk |-> <<0, 0, 0>>,
     merkle_tree_leaf_index |-> 0,
     merkle_tree_leaf_value |-> 0,
     merkle_tree_expected_tree_root |-> 0,
     merkle_tree_leaf_index_is_even |-> 0,
     merkle_tree_left_hash |-> 0,
     merkle_tree_right_hash |-> 0,
     merkle_tree_output_hash |-> 0,
     merkle_tree_sibling_value |-> 0,
     merkle_tree_path_len |-> 0,
     merkle_tree_path_len_inv |-> 0,
     merkle_tree_sel_merkle_tree |-> 0,
     merkle_tree_diff_inv |-> 0,
     merkle_tree_latch |-> 0,
     merkle_tree_is_member |-> 0,
     merkle_tree_sel_membership_op |-> 0,
     merkle_tree_sel_update_op |-> 0]

\* A row that already holds values in the Merkle columns when finalize gets it.
UsedRow ==
    [merkle_tree_clk |-> <<0, 0, 1>>,
     merkle_tree_leaf_index |-> 1,
     merkle_tree_leaf_value |-> 1,
     merkle_tree_expected_tree_root |-> 1,
     merkle_tree_leaf_index_is_even |-> 1,
     merkle_tree_left_hash |-> 1,
     merkle_tree_right_hash |-> 1,
     merkle_tree_output_hash |-> 1,
     merkle_tree_sibling_value |-> 1,
     merkle_tree_path_len |-> 1,
     merkle_tree_path_len_inv |-> 1,
     merkle_tree_sel_merkle_tree |-> 1,
     merkle_tree_diff_inv |-> 1,
     merkle_tree_latch |-> 1,
     merkle_tree_is_member |-> 1,
     merkle_tree_sel_membership_op |-> 1,
     merkle_tree_sel_update_op |-> 1]

\* The tables finalize is handed: any number of rows up to MaxRows, fresh or used.
Tables == { [j \in 1 .. n |-> r] : n \in 0 .. MaxRows, r \in {ZeroRow, UsedRow} }

RowClk_NoLevel(clk, i) == U64Add(U32Shl(clk), 0)

\* (src.clk << 6) + i, with i a size_t
RowClk(clk, i) == U64Add(U32Shl(clk), i)

LeftHash_Swapped(leaf_index, curr_value, sibling_value) ==
    IF leaf_index % 2 = 0 THEN sibling_value ELSE curr_value

\* leaf_index % 2 == 0 ? curr_value : sibling_value
LeftHash(leaf_index, curr_value, sibling_value) ==
    IF leaf_index % 2 = 0 THEN curr_value ELSE sibling_value

\* leaf_index % 2 == 0 ? sibling_value : curr_value
RightHash(leaf_index, curr_value, sibling_value) ==
    IF leaf_index % 2 = 0 THEN sibling_value ELSE curr_value

PathLenInv_Unguarded(path_length, i) == Invert(ToFF(path_length - i - 1))

\* (path_length - i - 1) == 0 ? 0 : FF(path_length - i - 1).invert()
PathLenInv(path_length, i) ==
    IF path_length - i - 1 = 0
    THEN [val |-> 0, zero_inverted |-> FALSE]
    ELSE Invert(ToFF(path_length - i - 1))

\* (output - root) == 0 ? 0 : (output - root).invert()
DiffInv(output, root) ==
    IF FFSub(output, root) = 0
    THEN [val |-> 0, zero_inverted |-> FALSE]
    ELSE Invert(FFSub(output, root))

IsFinalLevel_Always(i, path_length) == TRUE

\* i == (path_length - 1); the loop body runs with path_length >= 1 only.
IsFinalLevel(i, path_length) == i = path_length - 1

SelMembershipOp_Always(src) == 1

\* src.is_membership_op ? FF::one() : FF::zero()
SelMembershipOp(src) == IF src.is_membership_op THEN 1 ELSE 0

InRange_Unchecked(idx, trace) == TRUE

\* the range check of std::vector::at
InRange(idx, trace) == idx < Len(trace)

NextCounter_Stuck(c) == c

\* main_trace_counter++
NextCounter(c) == c + 1

\* The assignments to dest for level i of src.
WriteRow(dest, src, i, leaf_index, curr_value) ==
    LET path_length == Len(src.path)
        sibling_value == src.path[i + 1]
        row == [dest EXCEPT
                  !.merkle_tree_clk = RowClk(src.clk, i),
                  !.merkle_tree_leaf_index = leaf_index,
                  !.merkle_tree_leaf_value = curr_value,
                  !.merkle_tree_expected_tree_root = src.root,
                  !.merkle_tree_leaf_index_is_even =
                      IF leaf_index % 2 = 0 THEN 1 ELSE 0,
                  !.merkle_tree_left_hash =
                      LeftHash(leaf_index, curr_value, sibling_value),
                  !.merkle_tree_right_hash =
                      RightHash(leaf_index, curr_value, sibling_value),
                  !.merkle_tree_output_hash = src.path_values[i + 1],
                  !.merkle_tree_sibling_value = sibling_value,
                  !.merkle_tree_path_len = path_length - i - 1,
                  !.merkle_tree_path_len_inv = PathLenInv(path_length, i).val,
                  !.merkle_tree_sel_merkle_tree = 1,
                  !.merkle_tree_diff_inv =
                      DiffInv(src.path_values[i + 1], src.root).val]
    IN  IF IsFinalLevel(i, path_length)
        THEN [row EXCEPT
                !.merkle_tree_latch = 1,
                !.merkle_tree_is_member = IF src.is_member THEN 1 ELSE 0,
                !.merkle_tree_sel_membership_op = SelMembershipOp(src),
                !.merkle_tree_sel_update_op = IF src.is_update_op THEN 1 ELSE 0]
        ELSE row

\* The inner loop of finalize, from level i of the k-th entry src.
RECURSIVE LevelLoop(_, _, _, _, _, _)
LevelLoop(src, k, i, leaf_index, curr_value, st) ==
    IF st.status # "running" \/ ~(i < Len(src.path))
    THEN st
    ELSE LET idx == st.counter
             st1 == [st EXCEPT !.counter = NextCounter(idx)]
         IN  IF ~InRange(idx, st.trace)
             THEN [st1 EXCEPT !.status = "out_of_range"]
             ELSE LET st2 ==
                        IF idx < Len(st.trace)
                        THEN [st1 EXCEPT
                                !.trace[idx + 1] =
                                    WriteRow(st.trace[idx + 1], src, i,
                                             leaf_index, curr_value),
                                !.writes = Append(@, [idx |-> idx, k |-> k, i |-> i]),
                                !.zero_inverted =
                                    \/ @
                                    \/ PathLenInv(Len(src.path), i).zero_inverted
                                    \/ DiffInv(src.path_values[i + 1],
                                               src.root).zero_inverted]
                        ELSE \* an unchecked reference past the end of the table
                             [st1 EXCEPT !.wrote_past_end = TRUE]
                  IN  LevelLoop(src, k, i + 1, leaf_index \div 2,
                                src.path_values[i + 1], st2)

\* The outer loop of finalize, from the k-th entry.
RECURSIVE EntryLoop(_, _, _)
EntryLoop(entries, k, st) ==
    IF st.status # "running" \/ k > Len(entries)
    THEN st
    ELSE EntryLoop(entries, k + 1,
                   LevelLoop(entries[k], k, 0, entries[k].leaf_index,
                             entries[k].leaf_value, st))

NotFinalized ==
    [status |-> "none", writes |-> <<>>, zero_inverted |-> FALSE,
     wrote_past_end |-> FALSE, table |-> <<>>]

finalize(table) ==
    /\ phase = "recording"
    /\ LET st == EntryLoop(merkle_check_trace, 1,
                           [trace |-> table, counter |-> 0, status |-> "running",
                            writes |-> <<>>, zero_inverted |-> FALSE,
                            wrote_past_end |-> FALSE])
       IN  /\ main_trace' = st.trace
           /\ fin' = [status |-> IF st.status = "running"
                                 THEN "returned" ELSE st.status,
                      writes |-> st.writes,
                      zero_inverted |-> st.zero_inverted,
                      wrote_past_end |-> st.wrote_past_end,
                      table |-> table]
    /\ phase' = "finalized"
    /\ UNCHANGED <<merkle_check_trace, poseidon2_calls, last>>

(***************************************************************************)
(* Specification.                                                          *)
(***************************************************************************)
Init ==
    /\ merkle_check_trace = <<>>
    /\ poseidon2_calls = <<>>
    /\ last = NoCall
    /\ main_trace = <<>>
    /\ fin = NotFinalized
    /\ phase = "recording"

Next ==
    \/ \E clk \in ClkSet, leaf_value \in LeafValueSet,
          leaf_index \in LeafIndexSet, path \in PathSet, root \in RootSet :
            check_membership(clk, leaf_value, leaf_index, path, root)
    \/ \E clk \in ClkSet, leaf_value \in LeafValueSet,
          leaf_index \in LeafIndexSet, path \in PathSet :
            update_leaf_index(clk, leaf_value, leaf_index, path)
    \/ \E table \in Tables : finalize(table)

Spec == Init /\ [][Next]_vars

(***************************************************************************)
(* Quantities the properties speak of.                                     *)
(***************************************************************************)
\* sum of len(path) over the first k entries
RECURSIVE RowsBefore(_, _)
RowsBefore(entries, k) ==
    IF k = 0 THEN 0 ELSE RowsBefore(entries, k - 1) + Len(entries[k].path)

Demand == RowsBefore(merkle_check_trace, Len(merkle_check_trace))

\* the position (from 1) of level i of the k-th entry in entry-then-level order
Position(k, i) == RowsBefore(merkle_check_trace, k - 1) + i + 1

Levels(k) == 0 .. Len(merkle_check_trace[k].path) - 1

Entries == 1 .. Len(merkle_check_trace)

Returned == phase = "finalized" /\ fin.status = "returned"

Bit(b) == IF b THEN 1 ELSE 0

\* the four closing-row columns were 0 in the rows finalize was handed
ClosingColumnsClear(table, n) ==
    \A j \in 1 .. n :
        /\ j <= Len(table)
        /\ table[j].merkle_tree_latch = 0
        /\ table[j].merkle_tree_is_member = 0
        /\ table[j].merkle_tree_sel_membership_op = 0
        /\ table[j].merkle_tree_sel_update_op = 0

\* what the Path Evaluator computes for the arguments of the last call
LastComputed ==
    compute_root_from_path(last.clk, last.leaf_value, last.leaf_index,
                           last.path)

(***************************************************************************)
(* C1: every check_membership call returns true exactly when the root the  *)
(* Path Evaluator computes equals the supplied root, appends exactly one   *)
(* entry, marked as a membership check, whose is_member is the returned    *)
(* value and whose root is the computed root on true and the supplied root *)
(* on false.                                                               *)
(***************************************************************************)
C1_CheckMembership ==
    last.op = "check_membership" =>
        LET computed == LastComputed.entry.root
            n == Len(merkle_check_trace)
            e == merkle_check_trace[n]
        IN  /\ last.ret = (computed = last.root)
            /\ n = Len(last.before) + 1
            /\ SubSeq(merkle_check_trace, 1, n - 1) = last.before
            /\ e.is_membership_op /\ ~e.is_update_op
            /\ e.is_member = last.ret
            /\ e.root = IF last.ret THEN computed ELSE last.root
            /\ ~last.ret => e.root # computed

\* a failed check after a successful one on a path that is not empty
C1_Witness ==
    /\ Len(merkle_check_trace) = 2
    /\ merkle_check_trace[1].is_membership_op
    /\ merkle_check_trace[1].is_member
    /\ Len(merkle_check_trace[1].path) > 0
    /\ last.op = "check_membership"
    /\ last.ret = FALSE
    /\ LastComputed.entry.root # last.root

(***************************************************************************)
(* C2: every update_leaf_index call returns the root the Path Evaluator    *)
(* computes for its arguments and appends exactly one entry, with the      *)
(* update flag set, the membership-op flag and is_member clear, and that   *)
(* computed root.                                                          *)
(***************************************************************************)
C2_UpdateLeafIndex ==
    last.op = "update_leaf_index" =>
        LET computed == LastComputed.entry.root
            n == Len(merkle_check_trace)
            e == merkle_check_trace[n]
        IN  /\ last.ret = computed
            /\ n = Len(last.before) + 1
            /\ SubSeq(merkle_check_trace, 1, n - 1) = last.before
            /\ e.is_update_op /\ ~e.is_membership_op /\ ~e.is_member
            /\ e.root = computed

\* an update on a path of two levels, after another operation
C2_Witness ==
    /\ Len(merkle_check_trace) = 2
    /\ last.op = "update_leaf_index"
    /\ Len(last.path) = 2
    /\ merkle_check_trace[2].is_update_op
    /\ last.ret = merkle_check_trace[2].path_values[2]

(***************************************************************************)
(* C3: on a table with enough rows finalize writes exactly sum(len(path))  *)
(* rows, at the consecutive positions 0, 1, 2, ... in the order of its     *)
(* writes; the rows of the k-th entry are one block after the blocks of    *)
(* the earlier entries, row i of a block holding level i; no other row of  *)
(* the table changes.                                                      *)
(***************************************************************************)
C3_RowAccounting ==
    (phase = "finalized" /\ Demand <= Len(fin.table)) =>
        /\ fin.status = "returned"
        /\ Len(fin.writes) = Demand
        /\ Len(main_trace) = Len(fin.table)
        /\ \A n \in 1 .. Len(fin.writes) : fin.writes[n].idx = n - 1
        /\ \A k \in Entries : \A i \in Levels(k) :
              LET n == Position(k, i)
                  e == merkle_check_trace[k]
                  row == main_trace[n]
              IN  /\ fin.writes[n] = [idx |-> n - 1, k |-> k, i |-> i]
                  /\ row.merkle_tree_sel_merkle_tree = 1
                  /\ row.merkle_tree_path_len = Len(e.path) - i - 1
                  /\ row.merkle_tree_sibling_value = e.path[i + 1]
                  /\ row.merkle_tree_output_hash = e.path_values[i + 1]
                  /\ row.merkle_tree_expected_tree_root = e.root
        /\ \A j \in Demand + 1 .. Len(main_trace) : main_trace[j] = fin.table[j]

\* two entries of different depths compiled into a table with a row to spare
C3_Witness ==
    /\ Returned
    /\ Len(merkle_check_trace) = 2
    /\ Len(merkle_check_trace[1].path) = 2
    /\ Len(merkle_check_trace[2].path) = 1
    /\ Len(fin.writes) = 3
    /\ Len(fin.table) = 3
    /\ fin.table[1] = UsedRow

(***************************************************************************)
(* C4, as claimed: after finalize, in every entry's block the columns      *)
(* latch, is_member, sel_membership_op and sel_update_op are 0 on every    *)
(* row but the last, where latch is 1 and the other three carry the        *)
(* entry's outcome.                                                        *)
(***************************************************************************)
LatchLaw ==
    \A k \in Entries : \A i \in Levels(k) :
        LET e == merkle_check_trace[k]
            row == main_trace[Position(k, i)]
        IN  IF i = Len(e.path) - 1
            THEN /\ row.merkle_tree_latch = 1
                 /\ row.merkle_tree_is_member = Bit(e.is_member)
                 /\ row.merkle_tree_sel_membership_op = Bit(e.is_membership_op)
                 /\ row.merkle_tree_sel_update_op = Bit(e.is_update_op)
            ELSE /\ row.merkle_tree_latch = 0
                 /\ row.merkle_tree_is_member = 0
                 /\ row.merkle_tree_sel_membership_op = 0
                 /\ row.merkle_tree_sel_update_op = 0

Written ==
    { [row |-> main_trace[w.idx + 1], e |-> merkle_check_trace[w.k],
       k |-> w.k, i |-> w.i] :
        w \in { fin.writes[n] : n \in 1 .. Len(fin.writes) } }

(***************************************************************************)
(* C5: on every row finalize writes, path_len = len(path) - i - 1;         *)
(* path_len_inv is 0 exactly when path_len is 0 and is its inverse in the  *)
(* field otherwise; diff_inv is 0 exactly when output_hash equals          *)
(* expected_tree_root and is the inverse of their difference otherwise;    *)
(* and finalize never inverts zero.                                        *)
(***************************************************************************)
C5_InverseColumns ==
    phase = "finalized" =>
        /\ ~fin.zero_inverted
        /\ \A w \in Written :
              LET row == w.row
                  diff == FFSub(row.merkle_tree_output_hash,
                                row.merkle_tree_expected_tree_root)
              IN  /\ row.merkle_tree_path_len = Len(w.e.path) - w.i - 1
                  /\ (row.merkle_tree_path_len_inv = 0)
                        <=> (row.merkle_tree_path_len = 0)
                  /\ row.merkle_tree_path_len # 0 =>
                        FFMul(ToFF(row.merkle_tree_path_len),
                              row.merkle_tree_path_len_inv) = 1
                  /\ (row.merkle_tree_diff_inv = 0)
                        <=> (row.merkle_tree_output_hash
                                = row.merkle_tree_expected_tree_root)
                  /\ diff # 0 => FFMul(diff, row.merkle_tree_diff_inv) = 1

\* rows with a zero and a nonzero remaining length, and with a zero and a
\* nonzero difference, have been written
C5_Witness ==
    /\ phase = "finalized"
    /\ \E w \in Written : w.row.merkle_tree_path_len # 0
                            /\ w.row.merkle_tree_path_len_inv # 0
    /\ \E w \in Written : w.row.merkle_tree_path_len = 0
                            /\ w.row.merkle_tree_diff_inv = 0
    /\ \E w \in Written : w.row.merkle_tree_path_len = 0
                            /\ w.row.merkle_tree_diff_inv # 0

(***************************************************************************)
(* C6: the row written for level i of entry e has leaf_index =             *)
(* e.leaf_index >> i, leaf_value = e.leaf_value for i = 0 and              *)
(* e.path_values[i-1] for i > 0, leaf_index_is_even = 1 exactly when that  *)
(* index is even, (left_hash, right_hash) = (leaf_value, e.path[i]) when   *)
(* it is even and (e.path[i], leaf_value) when it is odd, and              *)
(* sibling_value = e.path[i].                                              *)
(***************************************************************************)
C6_ParityOperands ==
    phase = "finalized" =>
        \A w \in Written :
            LET row == w.row
                index == w.e.leaf_index \div 2^(w.i)
                value == IF w.i = 0 THEN w.e.leaf_value
                                    ELSE w.e.path_values[w.i]
                sibling == w.e.path[w.i + 1]
            IN  /\ row.merkle_tree_leaf_index = index
                /\ row.merkle_tree_leaf_value = value
                /\ row.merkle_tree_leaf_index_is_even = Bit(index % 2 = 0)
                /\ row.merkle_tree_sibling_value = sibling
                /\ index % 2 = 0 =>
                      /\ row.merkle_tree_left_hash = value
                      /\ row.merkle_tree_right_hash = sibling
                /\ index % 2 = 1 =>
                      /\ row.merkle_tree_left_hash = sibling
                      /\ row.merkle_tree_right_hash = value

\* an entry with leaf_index 1 and depth 2: odd at level 0, even at level 1
C6_Witness ==
    /\ Returned
    /\ \E k \in Entries :
          /\ merkle_check_trace[k].leaf_index = 1
          /\ Len(merkle_check_trace[k].path) = 2
          /\ main_trace[Position(k, 0)].merkle_tree_leaf_index_is_even = 0
          /\ main_trace[Position(k, 1)].merkle_tree_leaf_index_is_even = 1
          /\ main_trace[Position(k, 1)].merkle_tree_left_hash
                # main_trace[Position(k, 1)].merkle_tree_right_hash

(***************************************************************************)
(* C7: on a table with fewer than sum(len(path)) rows finalize ends in the *)
(* out-of-range fault of the checked row access; it never returns          *)
(* normally with fewer rows written than its demand, and it never writes a *)
(* row past the end of the table.                                          *)
(***************************************************************************)
C7_CapacityFault ==
    phase = "finalized" =>
        /\ Len(fin.table) < Demand => fin.status = "out_of_range"
        /\ fin.status = "returned" => Len(fin.writes) = Demand
        /\ ~fin.wrote_past_end
        /\ Len(main_trace) = Len(fin.table)
        /\ \A n \in 1 .. Len(fin.writes) : fin.writes[n].idx < Len(fin.table)

\* finalize faulted part way through the second entry's block
C7_Witness ==
    /\ phase = "finalized"
    /\ fin.status = "out_of_range"
    /\ Len(fin.table) = 3
    /\ Demand = 4
    /\ Len(fin.writes) = 3

(***************************************************************************)
(* C8: the rows replay the Path Evaluator's hash calls: the row written    *)
(* for level i of an entry has as clk the domain identifier of the         *)
(* evaluator's hash call at that level, its operands are that call's       *)
(* operands, output_hash is the hash of (left_hash, right_hash) under      *)
(* domain clk, and the output_hash of a block's last row is the root the   *)
(* evaluator computed.                                                     *)
(***************************************************************************)
C8_ReplaysHashCalls ==
    phase = "finalized" =>
        \A w \in Written :
            LET row == w.row
                call == poseidon2_calls[Position(w.k, w.i)]
                operands == <<row.merkle_tree_left_hash,
                              row.merkle_tree_right_hash>>
            IN  /\ row.merkle_tree_clk = call.clk
                /\ operands = call.input
                /\ row.merkle_tree_output_hash = call.output
                /\ row.merkle_tree_output_hash
                      = poseidon2_hash(operands, row.merkle_tree_clk)
                /\ w.i = Len(w.e.path) - 1 =>
                      row.merkle_tree_output_hash
                          = compute_root_from_path(w.e.clk, w.e.leaf_value,
                                                   w.e.leaf_index,
                                                   w.e.path).entry.root

\* two entries of depth 2 and 1 replayed, the first under the largest clock
\* whose shift loses no more than its top bits
C8_Witness ==
    /\ Returned
    /\ Len(merkle_check_trace) = 2
    /\ Len(poseidon2_calls) = 3
    /\ merkle_check_trace[1].clk = <<0, 1024, 1>>
    /\ merkle_check_trace[2].clk = <<0, 65535, 65535>>
    /\ main_trace[2].merkle_tree_clk = <<0, 0, 65>>
    /\ main_trace[3].merkle_tree_clk = <<0, 65535, 65472>>

(***************************************************************************)
(* C9: the domain identifiers of the hash calls are unique: two recorded   *)
(* operations with distinct clocks share no identifier, whatever the       *)
(* levels, and within one operation distinct levels have distinct          *)
(* identifiers.                                                            *)
(***************************************************************************)
C9_DomainIdsUnique ==
    \A k1 \in Entries : \A k2 \in Entries :
        \A i \in Levels(k1) : \A j \in Levels(k2) :
            (\/ merkle_check_trace[k1].clk # merkle_check_trace[k2].clk
             \/ (k1 = k2 /\ i # j)) =>
                poseidon2_calls[Position(k1, i)].clk
                    # poseidon2_calls[Position(k2, j)].clk

\* the entries of the log whose path is not empty, in order
WithLevels ==
    LET HasLevel(e) == Len(e.path) > 0
    IN  SelectSeq(merkle_check_trace, HasLevel)

\* the written rows whose latch is 1, in order
LatchRows ==
    LET Latched(row) == row.merkle_tree_latch = 1
    IN  SelectSeq(SubSeq(main_trace, 1, Len(fin.writes)), Latched)

\* the k-th latch row carries the outcome and the root of the k-th of entries
Closes(entries) ==
    /\ Len(LatchRows) = Len(entries)
    /\ \A k \in 1 .. Len(entries) :
          LET e == entries[k]
              row == LatchRows[k]
          IN  /\ row.merkle_tree_sel_membership_op = Bit(e.is_membership_op)
              /\ row.merkle_tree_sel_update_op = Bit(e.is_update_op)
              /\ row.merkle_tree_sel_membership_op
                    + row.merkle_tree_sel_update_op = 1
              /\ row.merkle_tree_is_member
                    = Bit(e.is_membership_op /\ e.is_member)
              /\ row.merkle_tree_expected_tree_root = e.root

FreshTable == \A j \in 1 .. Len(fin.table) : fin.table[j] = ZeroRow

(***************************************************************************)
(* C10, as claimed: after finalize on a zero-initialised table with enough *)
(* rows, whatever the lengths of the paths, there are as many written rows *)
(* with latch = 1 as recorded entries, and the k-th of them carries the    *)
(* k-th entry's outcome and root.                                          *)
(***************************************************************************)
C10_NoOperationLost_AnyPath ==
    (Returned /\ FreshTable) => Closes(merkle_check_trace)

(***************************************************************************)
(* C10, amended: the latch rows are, in order, the closing rows of the     *)
(* entries whose path is not empty; an entry with an empty path gets no    *)
(* row at all.                                                             *)
(***************************************************************************)
C10_NoOperationLost ==
    (Returned /\ FreshTable) => Closes(WithLevels)

\* an update and a failed check, both with levels, closed by two latch rows
C10_Witness ==
    /\ Returned
    /\ FreshTable
    /\ Len(merkle_check_trace) = 2
    /\ Len(LatchRows) = 2
    /\ merkle_check_trace[1].is_update_op
    /\ merkle_check_trace[2].is_membership_op
    /\ ~merkle_check_trace[2].is_member
    /\ LatchRows[2].merkle_tree_expected_tree_root
          # LatchRows[2].merkle_tree_output_hash

====
